---- MODULE Spec2Model ----
(***************************************************************************)
(* Freight: the migration API (mcp-servers/fastapi-integration/            *)
(* freight_mcp_server.py) and the Celery worker (freight/worker/main.py,   *)
(* freight/worker/tasks.py).                                               *)
(*                                                                         *)
(* The API keeps no store: a MigrationJob exists only as the object        *)
(* create_job builds and returns, and the only other thing the API ever    *)
(* says about a job is the reply of cancel_job.  The model keeps both as   *)
(* history: jobs (the MigrationJob objects built so far), requests (the    *)
(* CreateJobRequest each was built from), cancelled (the job ids for which *)
(* cancel_job has answered "Job <id> cancelled") and response (the reply   *)
(* of the last API call or health probe).                                  *)
(*                                                                         *)
(* The worker side is the Celery application of worker/main.py: two broker *)
(* queues named by task_routes, worker processes that take the head of a   *)
(* queue, run the task body of worker/tasks.py, and acknowledge the        *)
(* message late (task_acks_late), so a lost worker gives its message back  *)
(* (task_reject_on_worker_lost) and a run past task_time_limit fails.      *)
(* No code of the repository publishes a task; publishing is an input.     *)
(***************************************************************************)
EXTENDS Integers, Sequences, FiniteSets, TLC

VARIABLES
    jobs,        \* job id -> MigrationJob built by create_job
    requests,    \* job id -> the CreateJobRequest it was built from
    cancelled,   \* job ids cancel_job has reported cancelled
    response,    \* reply of the last API call or health probe
    queues,      \* queue name -> sequence of task messages at the broker
    running,     \* worker -> message it is executing (unacknowledged), or Idle
    results,     \* <<job id, batch id>> -> latest outcome of process_migration_batch
    retryResults,\* <<job id, batch id>> -> latest return of retry_failed_batch
    fails,       \* <<job id, batch id>> -> executions that ended in failure
    retried,     \* <<job id, batch id>> -> times retry_failed_batch answered "retried"
    dispatched,  \* <<job id, batch id>> a worker has taken from a queue at least once
    lastLane,    \* queue the latest message a worker took came from
    sent         \* task messages published so far

vars == <<jobs, requests, cancelled, response, queues, running, results,
          retryResults, fails, retried, dispatched, lastLane, sent>>

apiVars == <<jobs, requests, cancelled, response>>
workerVars ==
    <<queues, running, results, retryResults, fails, retried, dispatched,
      lastLane, sent>>

----------------------------------------------------------------------------
(* Bounds and input sets *)

MaxSends == 3

Tenants == {"tA", "tB"}
\* values of the X-Tenant-ID header; "" is the empty header get_tenant_id rejects
Headers == Tenants \cup {""}
\* ids uuid4 can hand out
JobIds == {"j1"}
\* an id no create_job ever returned
UnknownJob == "jx"
BatchIds == {"b1", "b2"}
Workers == {"w1", "w2"}
\* bodies of POST /api/v1/jobs: (batch_size, max_retries); the fields are
\* plain ints, so a batch_size of 0 is a body the endpoint receives
JobRequests == {<<2, 1>>, <<2, 0>>, <<0, 1>>}
\* batch_ids of a RetryRequest; NoBatchIds is the absent (None) list
NoBatchIds == <<"none">>
BatchIdLists == {NoBatchIds, <<"b1">>}

Batches == JobIds \X BatchIds

\* the records of a batch: the same list on every attempt of the batch
RecordsOf(b) == IF b = "b1" THEN <<"r1", "r2">> ELSE <<"r3">>

----------------------------------------------------------------------------
(* API models: freight_mcp_server.py *)

JobStatus == {"pending", "running", "completed", "failed"}

NoJob == [id |-> "none"]

MigrationJob(job_id, tenant_id) ==
    [id |-> job_id, tenant_id |-> tenant_id, status |-> "pending",
     record_count |-> 0, failed_batches |-> 0]

CreateJobRequest(batch_size, max_retries) ==
    [batch_size |-> batch_size, max_retries |-> max_retries]

\* get_tenant_id: an empty header is refused with 400
TenantOk(x_tenant_id) == x_tenant_id # ""

BadTenant ==
    [op |-> "any", tenant |-> "", job_id |-> "none", code |-> 400,
     detail |-> "X-Tenant-ID header required", body |-> NoJob]

\* uuid4(): an id never handed out before
FreshIds == JobIds \ DOMAIN jobs
NewJobId == CHOOSE j \in FreshIds : TRUE

\* the ids a client can name: those it was given, or one that was never issued
KnownIds == DOMAIN jobs \cup {UnknownJob}

create_job(x_tenant_id, job_request) ==
    /\ FreshIds # {}
    /\ IF ~TenantOk(x_tenant_id)
       THEN /\ response' = BadTenant
            /\ UNCHANGED <<jobs, requests>>
       ELSE LET job == MigrationJob(NewJobId, x_tenant_id) IN
            /\ jobs' = jobs @@ (NewJobId :> job)
            /\ requests' = requests @@ (NewJobId :> job_request)
            /\ response' = [op |-> "create_job", tenant |-> x_tenant_id,
                            job_id |-> NewJobId, code |-> 200,
                            detail |-> "", body |-> job]
    /\ UNCHANGED cancelled
    /\ UNCHANGED workerVars

\* a get_job that looks the job up by id alone and returns it
GetJobReplyUnscoped(x_tenant_id, job_id) ==
    IF job_id \in DOMAIN jobs
    THEN [op |-> "get_job", tenant |-> x_tenant_id, job_id |-> job_id,
          code |-> 200, detail |-> "", body |-> jobs[job_id]]
    ELSE [op |-> "get_job", tenant |-> x_tenant_id, job_id |-> job_id,
          code |-> 404, detail |-> "Job not found", body |-> NoJob]

\* the reply of get_job: the lookup is a TODO, every call raises 404
GetJobReply(x_tenant_id, job_id) ==
    [op |-> "get_job", tenant |-> x_tenant_id, job_id |-> job_id,
     code |-> 404, detail |-> "Job not found", body |-> NoJob]

get_job(x_tenant_id, job_id) ==
    /\ response' = IF ~TenantOk(x_tenant_id) THEN BadTenant
                   ELSE GetJobReply(x_tenant_id, job_id)
    /\ UNCHANGED <<jobs, requests, cancelled>>
    /\ UNCHANGED workerVars

\* retry_count of the reply: len(batch_ids) if batch_ids else "all_failed"
RetryCount(batch_ids) ==
    IF batch_ids = NoBatchIds \/ batch_ids = <<>> THEN "all_failed"
    ELSE ToString(Len(batch_ids))

\* a retry_job that re-opens the job it retries
retry_job_reopening(x_tenant_id, job_id, batch_ids) ==
    /\ response' = IF ~TenantOk(x_tenant_id) THEN BadTenant
                   ELSE [op |-> "retry_job", tenant |-> "",
                         job_id |-> job_id, code |-> 200,
                         detail |-> RetryCount(batch_ids), body |-> NoJob]
    /\ cancelled' = IF TenantOk(x_tenant_id) THEN cancelled \ {job_id}
                    ELSE cancelled
    /\ UNCHANGED <<jobs, requests>>
    /\ UNCHANGED workerVars

retry_job(x_tenant_id, job_id, batch_ids) ==
    /\ response' = IF ~TenantOk(x_tenant_id) THEN BadTenant
                   ELSE [op |-> "retry_job", tenant |-> "",
                         job_id |-> job_id, code |-> 200,
                         detail |-> RetryCount(batch_ids), body |-> NoJob]
    /\ UNCHANGED <<jobs, requests, cancelled>>
    /\ UNCHANGED workerVars

\* GET /api/v1/jobs/{job_id}/logs: the query is a TODO, the list is empty
get_job_logs(x_tenant_id, job_id) == <<>>

cancel_job(x_tenant_id, job_id) ==
    /\ IF ~TenantOk(x_tenant_id)
       THEN /\ response' = BadTenant
            /\ UNCHANGED cancelled
       ELSE /\ response' = [op |-> "cancel_job", tenant |-> "",
                            job_id |-> job_id, code |-> 200,
                            detail |-> "cancelled", body |-> NoJob]
            /\ cancelled' = cancelled \cup {job_id}
    /\ UNCHANGED <<jobs, requests>>
    /\ UNCHANGED workerVars

----------------------------------------------------------------------------
(* Celery application: freight/worker/main.py *)

TaskNames == {"process_migration_batch", "retry_failed_batch"}
QueueNames == {"default", "high_priority"}

\* celery_app.conf.task_routes
TaskRoute(task) ==
    IF task = "process_migration_batch" THEN "default" ELSE "high_priority"

Idle == [task |-> "idle"]

\* a freshly published task message; request.retries starts at 0 and only
\* self.retry(), which no task calls, would raise it
Message(task, job_id, batch_id) ==
    [task |-> task, tenant_id |-> jobs[job_id].tenant_id, job_id |-> job_id,
     batch_id |-> batch_id,
     records |-> IF task = "process_migration_batch" THEN RecordsOf(batch_id)
                 ELSE <<>>,
     retries |-> 0]

NoResult == [state |-> "NONE"]
Failure == [state |-> "FAILURE"]

\* latest outcome of a batch is a failed one
FailedOutcome(key) ==
    \/ results[key].state = "FAILURE"
    \/ results[key].state = "SUCCESS" /\ results[key].failed > 0

\* a producer publishes a task for a job it was given: a batch to process at
\* any time, a retry once the batch's latest outcome is a failure
Publish(task, job_id, batch_id) ==
    /\ sent < MaxSends
    /\ job_id \in DOMAIN jobs
    /\ task = "retry_failed_batch" => FailedOutcome(<<job_id, batch_id>>)
    /\ queues' = [queues EXCEPT ![TaskRoute(task)] =
                      Append(@, Message(task, job_id, batch_id))]
    /\ sent' = sent + 1
    /\ UNCHANGED <<running, results, retryResults, fails, retried, dispatched,
                   lastLane>>
    /\ UNCHANGED apiVars

\* a free worker process takes the message at the head of a queue; with
\* task_acks_late the message stays unacknowledged while the task runs
WorkerStart(w, q) ==
    /\ running[w] = Idle
    /\ queues[q] # <<>>
    /\ running' = [running EXCEPT ![w] = Head(queues[q])]
    /\ queues' = [queues EXCEPT ![q] = Tail(@)]
    /\ dispatched' =
           IF Head(queues[q]).task = "process_migration_batch"
           THEN dispatched \cup {<<Head(queues[q]).job_id, Head(queues[q]).batch_id>>}
           ELSE dispatched
    /\ lastLane' = q
    /\ UNCHANGED <<results, retryResults, fails, retried, sent>>
    /\ UNCHANGED apiVars

----------------------------------------------------------------------------
(* Tasks: freight/worker/tasks.py *)

\* a process_migration_batch that counts one record too few
process_migration_batch_short(tenant_id, job_id, batch_id, records) ==
    [state |-> "SUCCESS", tenant_id |-> tenant_id, job_id |-> job_id,
     batch_id |-> batch_id,
     processed |-> IF records = <<>> THEN 0 ELSE Len(records) - 1,
     failed |-> 0, errors |-> <<>>]

process_migration_batch(tenant_id, job_id, batch_id, records) ==
    [state |-> "SUCCESS", tenant_id |-> tenant_id, job_id |-> job_id,
     batch_id |-> batch_id, processed |-> Len(records), failed |-> 0,
     errors |-> <<>>]

retry_failed_batch(request_retries, tenant_id, job_id, batch_id) ==
    [state |-> "SUCCESS", tenant_id |-> tenant_id, job_id |-> job_id,
     batch_id |-> batch_id, retry_attempt |-> request_retries + 1,
     status |-> "retried"]

HealthReply ==
    [op |-> "health_check", tenant |-> "", job_id |-> "none", code |-> 200,
     detail |-> "", body |-> [status |-> "healthy", worker |-> "operational"]]

\* a health_check that also empties the broker queues
health_check_purging ==
    /\ response' = HealthReply
    /\ queues' = [q \in QueueNames |-> <<>>]
    /\ UNCHANGED <<jobs, requests, cancelled>>
    /\ UNCHANGED <<running, results, retryResults, fails, retried, dispatched,
                   lastLane, sent>>

\* the worker probe, called with no argument; response holds what it returned
health_check ==
    /\ response' = HealthReply
    /\ UNCHANGED <<jobs, requests, cancelled>>
    /\ UNCHANGED workerVars

\* the task body returns: the result is stored and the message acknowledged
TaskReturn(w) ==
    /\ running[w] # Idle
    /\ LET m == running[w]
           key == <<m.job_id, m.batch_id>>
       IN IF m.task = "process_migration_batch"
          THEN LET r == process_migration_batch(m.tenant_id, m.job_id,
                                                m.batch_id, m.records)
               IN /\ results' = [results EXCEPT ![key] = r]
                  /\ fails' = [fails EXCEPT ![key] =
                                   IF r.failed > 0 THEN @ + 1 ELSE @]
                  /\ UNCHANGED <<retryResults, retried>>
          ELSE LET r == retry_failed_batch(m.retries, m.tenant_id, m.job_id,
                                           m.batch_id)
               IN /\ retryResults' = [retryResults EXCEPT ![key] = r]
                  /\ retried' = [retried EXCEPT ![key] =
                                     IF r.status = "retried" THEN @ + 1 ELSE @]
                  /\ UNCHANGED <<results, fails>>
    /\ running' = [running EXCEPT ![w] = Idle]
    /\ UNCHANGED <<queues, dispatched, lastLane, sent>>
    /\ UNCHANGED apiVars

\* task_time_limit / task_soft_time_limit: the run is cut off and the task
\* fails; a failed task is acknowledged, nothing publishes it again
TimeLimitExceeded(w) ==
    /\ running[w] # Idle
    /\ LET m == running[w]
           key == <<m.job_id, m.batch_id>>
       IN IF m.task = "process_migration_batch"
          THEN /\ results' = [results EXCEPT ![key] = Failure]
               /\ fails' = [fails EXCEPT ![key] = @ + 1]
               /\ UNCHANGED retryResults
          ELSE /\ retryResults' = [retryResults EXCEPT ![key] = Failure]
               /\ UNCHANGED <<results, fails>>
    /\ running' = [running EXCEPT ![w] = Idle]
    /\ UNCHANGED <<queues, retried, dispatched, lastLane, sent>>
    /\ UNCHANGED apiVars

\* task_reject_on_worker_lost: the worker process dies mid-task and its
\* unacknowledged message goes back to the head of its queue
WorkerLost(w) ==
    /\ running[w] # Idle
    /\ queues' = [queues EXCEPT ![TaskRoute(running[w].task)] =
                      <<running[w]>> \o @]
    /\ running' = [running EXCEPT ![w] = Idle]
    /\ UNCHANGED <<results, retryResults, fails, retried, dispatched, lastLane,
                   sent>>
    /\ UNCHANGED apiVars

----------------------------------------------------------------------------
(* Specification *)

Init ==
    /\ jobs = <<>>
    /\ requests = <<>>
    /\ cancelled = {}
    /\ response = [op |-> "none", tenant |-> "", job_id |-> "none",
                   code |-> 0, detail |-> "", body |-> NoJob]
    /\ queues = [q \in QueueNames |-> <<>>]
    /\ running = [w \in Workers |-> Idle]
    /\ results = [k \in Batches |-> NoResult]
    /\ retryResults = [k \in Batches |-> NoResult]
    /\ fails = [k \in Batches |-> 0]
    /\ retried = [k \in Batches |-> 0]
    /\ dispatched = {}
    /\ lastLane = "none"
    /\ sent = 0

\* get_job is asked about issued and never-issued ids; retry_job and
\* cancel_job are called for jobs that were issued
Next ==
    \/ \E h \in Headers, r \in JobRequests :
           create_job(h, CreateJobRequest(r[1], r[2]))
    \/ \E h \in Headers, j \in KnownIds : get_job(h, j)
    \/ \E h \in Headers, j \in DOMAIN jobs, ids \in BatchIdLists :
           retry_job(h, j, ids)
    \/ \E h \in Headers, j \in DOMAIN jobs : cancel_job(h, j)
    \/ \E t \in TaskNames, j \in JobIds, b \in BatchIds : Publish(t, j, b)
    \/ \E w \in Workers, q \in QueueNames : WorkerStart(w, q)
    \/ \E w \in Workers : TaskReturn(w)
    \/ \E w \in Workers : TimeLimitExceeded(w)
    \/ \E w \in Workers : WorkerLost(w)
    \/ health_check

Spec == Init /\ [][Next]_vars

----------------------------------------------------------------------------
(* Views used by the properties *)

MaxRetriesOf(job_id) == requests[job_id].max_retries

\* what the API has said about a job: cancelled once cancel_job has answered
\* for it, otherwise the status of the MigrationJob create_job built
JobStatusOf(job_id) ==
    IF job_id \in cancelled THEN "cancelled" ELSE jobs[job_id].status

Terminal == {"completed", "failed", "cancelled"}

\* a worker is executing process_migration_batch for the batch
Executing(w, key) ==
    /\ running[w].task = "process_migration_batch"
    /\ <<running[w].job_id, running[w].batch_id>> = key

Queued(key) ==
    \E i \in 1..Len(queues["default"]) :
        <<queues["default"][i].job_id, queues["default"][i].batch_id>> = key

BatchStatus(key) ==
    IF \E w \in Workers : Executing(w, key) THEN "running"
    ELSE IF Queued(key) THEN "queued"
    ELSE IF FailedOutcome(key) THEN "failed"
    ELSE IF results[key].state = "SUCCESS" THEN "succeeded"
    ELSE "none"

\* the batches of a job that have been handed to a worker
JobBatches(job_id) == {key \in dispatched : key[1] = job_id}

\* nothing queued, nothing executing
Quiescent ==
    /\ \A q \in QueueNames : queues[q] = <<>>
    /\ \A w \in Workers : running[w] = Idle

TypeOK ==
    /\ DOMAIN jobs \subseteq JobIds
    /\ DOMAIN requests = DOMAIN jobs
    /\ \A j \in DOMAIN jobs : jobs[j].status \in JobStatus
    /\ cancelled \subseteq KnownIds
    /\ sent \in 0..MaxSends
    /\ dispatched \subseteq Batches

----------------------------------------------------------------------------
(* Properties *)

(* C2: at most one execution per batch id. In every reachable state no two  *)
(* workers are executing process_migration_batch for the same batch,        *)
(* however many times the batch was published.                              *)
AtMostOneExecution ==
    \A key \in Batches : \A w1, w2 \in Workers :
        (Executing(w1, key) /\ Executing(w2, key)) => w1 = w2

(* C3: retry ceiling. The Retry Engine answers "retried" (re-enqueue, next  *)
(* attempt) for a failed batch only while the batch's attempt count is      *)
(* below the job's max_retries, so a batch is never retried more than       *)
(* max_retries times; past that the answer is "exhausted".                  *)
RetryCeiling ==
    \A key \in Batches :
        key[1] \in DOMAIN jobs =>
            /\ retried[key] <= MaxRetriesOf(key[1])
            /\ (retryResults[key].state = "SUCCESS"
                /\ retryResults[key].retry_attempt > MaxRetriesOf(key[1]))
               => retryResults[key].status = "exhausted"

(* C5: tenant isolation. Every answer of get_job to a tenant about a job    *)
(* another tenant owns is NotFound (404) with no job in it, the same answer *)
(* as for a job id that was never issued.                                   *)
NotFound == <<404, "Job not found", NoJob>>

Outcome(r) == <<r.code, r.detail, r.body>>

CrossTenantRead ==
    /\ response.op = "get_job"
    /\ response.job_id \in DOMAIN jobs
    /\ jobs[response.job_id].tenant_id # response.tenant

TenantIsolation ==
    /\ CrossTenantRead => Outcome(response) = NotFound
    /\ (response.op = "get_job" /\ response.job_id \notin DOMAIN jobs)
           => Outcome(response) = NotFound

TenantIsolationWitness ==
    /\ CrossTenantRead
    /\ response.tenant = "tA"
    /\ jobs[response.job_id].tenant_id = "tB"

(* C6: cooperative cancellation. Once cancel_job has been accepted for a    *)
(* job, no worker takes a batch of that job that had not been dispatched    *)
(* before.                                                                  *)
NoDispatchAfterCancel ==
    [][\A w \in Workers : \A key \in Batches :
          (key[1] \in cancelled /\ key \notin dispatched /\ running[w] = Idle)
              => ~Executing(w, key)']_vars

(* C7: cancellation ordering. In no reachable state is a job cancelled      *)
(* while one of its batches is still being executed.                        *)
NotCancelledWhileRunning ==
    \A j \in DOMAIN jobs :
        JobStatusOf(j) = "cancelled" =>
            \A w \in Workers : \A b \in BatchIds : ~Executing(w, <<j, b>>)

(* C8: job state machine. A job starts pending; its status only moves       *)
(* pending -> running -> {completed, failed, cancelled} or pending ->       *)
(* cancelled, and a job in completed, failed or cancelled keeps that status *)
(* whatever operation follows.                                              *)
AllowedMoves ==
    {<<"pending", "running">>, <<"pending", "cancelled">>,
     <<"running", "completed">>, <<"running", "failed">>,
     <<"running", "cancelled">>}

JobStateMachine ==
    [][\A j \in JobIds :
          /\ (j \notin DOMAIN jobs /\ j \in DOMAIN jobs')
                 => JobStatusOf(j)' = "pending"
          /\ j \in DOMAIN jobs =>
                 /\ j \in DOMAIN jobs'
                 /\ \/ JobStatusOf(j)' = JobStatusOf(j)
                    \/ <<JobStatusOf(j), JobStatusOf(j)'>> \in AllowedMoves]_vars

\* a cancelled job for which retry_job has answered after the cancellation,
\* with a batch of the job completed
JobStateMachineWitness ==
    /\ "j1" \in DOMAIN jobs
    /\ JobStatusOf("j1") \in Terminal
    /\ response.op = "retry_job"
    /\ response.job_id = "j1"
    /\ results[<<"j1", "b1">>].state = "SUCCESS"

(* C10: retried batches are not double-counted. When a job's batches have   *)
(* all succeeded, one of them after failing at most max_retries times, and  *)
(* nothing is left to run, the job is completed with failed_batches = 0.    *)
RetriedBatchNotDoubleCounted ==
    \A j \in DOMAIN jobs :
        ( /\ Quiescent
          /\ j \notin cancelled
          /\ JobBatches(j) # {}
          /\ \A key \in JobBatches(j) :
                 /\ BatchStatus(key) = "succeeded"
                 /\ fails[key] <= MaxRetriesOf(j)
          /\ \E key \in JobBatches(j) : fails[key] >= 1 )
        => /\ JobStatusOf(j) = "completed"
           /\ jobs[j].failed_batches = 0

(* C11: create_job validates its input. A request with batch_size <= 0 or  *)
(* max_retries < 0 is refused and creates no job; an accepted request       *)
(* returns a job that is pending, has failed_batches = 0 and carries the    *)
(* caller's tenant id.                                                      *)
ValidRequest(r) == r.batch_size > 0 /\ r.max_retries >= 0

CreateJobValidates ==
    /\ \A j \in DOMAIN jobs : ValidRequest(requests[j])
    /\ (response.op = "create_job" /\ response.code = 200) =>
           /\ response.body.status = "pending"
           /\ response.body.failed_batches = 0
           /\ response.body.tenant_id = response.tenant

(* C12: process_migration_batch reports the batch it was given. A stored    *)
(* result carries the tenant, job and batch id of the call, processed is    *)
(* the number of records of the batch, failed is 0 and errors is empty.     *)
BatchResultMatchesCall ==
    \A key \in Batches :
        results[key].state = "SUCCESS" =>
            /\ results[key].job_id = key[1]
            /\ results[key].batch_id = key[2]
            /\ results[key].tenant_id = jobs[key[1]].tenant_id
            /\ results[key].processed = Len(RecordsOf(key[2]))
            /\ results[key].failed = 0
            /\ results[key].errors = <<>>
            /\ BatchStatus(key) \in {"succeeded", "queued", "running"}

\* both batches have a stored result: one of two records, one of one record
BatchResultWitness ==
    /\ results[<<"j1", "b1">>].state = "SUCCESS"
    /\ results[<<"j1", "b1">>].processed = 2
    /\ results[<<"j1", "b2">>].state = "SUCCESS"
    /\ results[<<"j1", "b2">>].processed = 1

(* C13: dispatch discipline. Whenever both lanes are non-empty the next     *)
(* message a worker takes comes from the high-priority lane, unless K       *)
(* high-priority messages in a row were just served. After a dispatch from  *)
(* the normal lane (or none at all) the run of high-priority dispatches is  *)
(* 0, below every K >= 1, so the next dispatch must be high-priority.       *)
Dispatch(w) == running[w] = Idle /\ running'[w] # Idle

HighPriorityFirst ==
    [][\A w \in Workers :
          ( /\ Dispatch(w)
            /\ queues["default"] # <<>>
            /\ queues["high_priority"] # <<>>
            /\ lastLane # "high_priority" )
          => lastLane' = "high_priority"]_vars

(* C14: attempt ceiling. In every reachable state the attempt number the   *)
(* Retry Engine has given a batch is at most the max_retries of its job,    *)
(* whatever retry_job calls were made.                                      *)
AttemptWithinCeiling ==
    \A key \in Batches :
        (key[1] \in DOMAIN jobs /\ retryResults[key].state = "SUCCESS")
            => retryResults[key].retry_attempt <= MaxRetriesOf(key[1])

(* C15: the worker health probe. Whatever the state of jobs, batches and    *)
(* queues, a health_check returns status "healthy" and worker "operational" *)
(* and leaves every job, batch, queue and result as it was.                 *)
HealthProbePure ==
    [][(response'.op = "health_check" /\ response.op # "health_check") =>
          /\ response'.body = [status |-> "healthy", worker |-> "operational"]
          /\ UNCHANGED <<jobs, requests, cancelled>>
          /\ UNCHANGED workerVars]_vars

\* a probe answered while a job is cancelled, a message waits and one runs
HealthProbeWitness ==
    /\ response.op = "health_check"
    /\ response.body.status = "healthy"
    /\ cancelled # {}
    /\ queues["default"] # <<>>
    /\ \E w \in Workers : running[w] # Idle

(* C16: the log is complete per attempt. Once an execution of a batch has   *)
(* reported its outcome, the job's log holds at least one entry for each    *)
(* record of the batch.                                                     *)
LogCompletePerAttempt ==
    \A key \in Batches :
        (key[1] \in DOMAIN jobs /\ results[key].state # "NONE") =>
            Len(get_job_logs(jobs[key[1]].tenant_id, key[1]))
                >= Len(RecordsOf(key[2]))

(* C17: execution time ceiling. A batch whose execution was cut off by the  *)
(* time limit is a failed outcome the Retry Engine gets: once nothing is    *)
(* queued or running any more, the Retry Engine has decided on the batch.   *)
TimeoutHandedToRetry ==
    \A key \in Batches :
        (Quiescent /\ results[key].state = "FAILURE") =>
            /\ retryResults[key].state = "SUCCESS"
            /\ retryResults[key].status \in {"retried", "exhausted"}

(* C18: exhaustion fails the job. With max_retries = 0, a batch that has    *)
(* failed and gone through the Retry Engine is exhausted, and once nothing  *)
(* is left to run its job is failed.                                        *)
ExhaustedJobFails ==
    \A key \in Batches :
        ( /\ key[1] \in DOMAIN jobs
          /\ key[1] \notin cancelled
          /\ MaxRetriesOf(key[1]) = 0
          /\ Quiescent
          /\ FailedOutcome(key)
          /\ retryResults[key].state = "SUCCESS" )
        => /\ retryResults[key].status = "exhausted"
           /\ JobStatusOf(key[1]) = "failed"

(* C20: termination. Once nothing is queued or running, every job that was  *)
(* started is completed, failed or cancelled, and every batch of a job      *)
(* that is not cancelled has ended succeeded or exhausted.                  *)
Exhausted(key) ==
    retryResults[key].state = "SUCCESS" /\ retryResults[key].status = "exhausted"

StartedJobTerminates ==
    \A j \in DOMAIN jobs :
        (Quiescent /\ JobBatches(j) # {}) =>
            /\ JobStatusOf(j) \in Terminal
            /\ j \notin cancelled =>
                   \A key \in JobBatches(j) :
                       BatchStatus(key) = "succeeded" \/ Exhausted(key)

====
